---- MODULE Spec2Model ----
(***************************************************************************)
(* Query orchestration pipeline of the Neural Search Engine backend:       *)
(* POST /api/query (intent routing, scoped retrieval, ranking, Map-Reduce  *)
(* answer synthesis) together with the services it calls.                  *)
(*                                                                         *)
(* Text is modelled as a sequence of one-character strings, so that        *)
(* normalisation, lower-casing, substring tests and the regular            *)
(* expressions of the source are computed, not assumed.                    *)
(***************************************************************************)
EXTENDS Integers, Sequences, FiniteSets, TLC

(***************************************************************************)
(* Strings                                                                 *)
(***************************************************************************)

UpperChars == <<"A","B","C","D","E","F","G","H","I","J","K","L","M",
                "N","O","P","Q","R","S","T","U","V","W","X","Y","Z">>

LowerChars == <<"a","b","c","d","e","f","g","h","i","j","k","l","m",
                "n","o","p","q","r","s","t","u","v","w","x","y","z">>

DigitChars == {"0","1","2","3","4","5","6","7","8","9"}

\* the characters \s matches among those the model uses
WhiteChars == {" ", "\t", "\n"}

UpperSet == {UpperChars[k] : k \in 1..26}
LowerSet == {LowerChars[k] : k \in 1..26}

\* the lower-case letter of every upper-case letter
LowerOf == [c \in UpperSet |-> LowerChars[CHOOSE k \in 1..26 : UpperChars[k] = c]]

IsUpper(c) == c \in UpperSet

\* \w
IsWordChar(c) == c \in UpperSet \/ c \in LowerSet \/ c \in DigitChars \/ c = "_"

\* String.prototype.toLowerCase, one character
LowerChar(c) == IF c \in UpperSet THEN LowerOf[c] ELSE c

\* String.prototype.toLowerCase
toLowerCase(s) == [k \in 1..Len(s) |-> LowerChar(s[k])]

\* does t occur in s starting at 0-based position i
OccursAt(s, t, i) ==
    /\ i + Len(t) <= Len(s)
    /\ \A k \in 1..Len(t) : s[i + k] = t[k]

\* the same, ignoring case
OccursAtI(s, t, i) ==
    /\ i + Len(t) <= Len(s)
    /\ \A k \in 1..Len(t) : LowerChar(s[i + k]) = LowerChar(t[k])

\* String.prototype.includes
includes(s, t) == \E i \in 0..Len(s) : OccursAt(s, t, i)

RECURSIVE TrimStart(_)
TrimStart(s) ==
    IF s # <<>> /\ Head(s) \in WhiteChars THEN TrimStart(Tail(s)) ELSE s

RECURSIVE TrimEnd(_)
TrimEnd(s) ==
    IF s # <<>> /\ s[Len(s)] \in WhiteChars
    THEN TrimEnd(SubSeq(s, 1, Len(s) - 1))
    ELSE s

\* String.prototype.trim
trim(s) == TrimEnd(TrimStart(s))

\* input.replace(/\s+/g, " "): every maximal run of whitespace becomes one space
RECURSIVE CollapseWhite(_)
CollapseWhite(s) ==
    IF s = <<>> THEN <<>>
    ELSE IF Head(s) \in WhiteChars
         THEN <<" ">> \o CollapseWhite(TrimStart(s))
         ELSE <<Head(s)>> \o CollapseWhite(Tail(s))

normalizeQuery(input) == trim(CollapseWhite(input))

(***************************************************************************)
(* Regular expressions.  A pattern is a tree; Ends(r, s, I) is the set of  *)
(* positions where a match of r that starts at a position of I can end.    *)
(* Positions are 0-based offsets 0..Len(s).                                *)
(***************************************************************************)

\* a literal under the i flag
LitI(t)      == [t |-> "lit", s |-> t]
Alt(rs)      == [t |-> "alt", rs |-> rs]
Cat(rs)      == [t |-> "cat", rs |-> rs]
Opt(r)       == [t |-> "opt", r |-> r]
White(min)   == [t |-> "white", min |-> min]
WordB        == [t |-> "wordb"]
\* [A-Z]{min,max}; max = -1 stands for no upper limit
UpperRun(min, max) == [t |-> "upper", min |-> min, max |-> max]

\* \b: exactly one side of position i is a word character
AtWordBoundary(s, i) ==
    LET before == i > 0 /\ IsWordChar(s[i])
        after  == i < Len(s) /\ IsWordChar(s[i + 1])
    IN  before # after

\* end positions of a run of at least min and at most max characters of set-predicate kind
RunEnds(s, i, min, max, kind) ==
    {j \in i..Len(s) :
        /\ j - i >= min
        /\ (max < 0 \/ j - i <= max)
        /\ \A k \in (i + 1)..j :
              IF kind = "white" THEN s[k] \in WhiteChars ELSE IsUpper(s[k])}

RECURSIVE Ends(_, _, _)
Ends(r, s, I) ==
    CASE r.t = "lit"   -> {i + Len(r.s) : i \in {p \in I : OccursAtI(s, r.s, p)}}
      [] r.t = "alt"   -> UNION {Ends(r.rs[k], s, I) : k \in 1..Len(r.rs)}
      [] r.t = "cat"   -> IF r.rs = <<>> THEN I
                          ELSE Ends(Cat(Tail(r.rs)), s, Ends(Head(r.rs), s, I))
      [] r.t = "opt"   -> I \cup Ends(r.r, s, I)
      [] r.t = "white" -> UNION {RunEnds(s, i, r.min, -1, "white") : i \in I}
      [] r.t = "wordb" -> {i \in I : AtWordBoundary(s, i)}
      [] r.t = "upper" -> UNION {RunEnds(s, i, r.min, r.max, "upper") : i \in I}

\* RegExp.prototype.test without anchors: a match may start anywhere
RegexTest(r, s) == \E i \in 0..Len(s) : Ends(r, s, {i}) # {}

\* String.prototype.match, element 0: the text of the leftmost match, <<>> when
\* there is none.  The end taken is the farthest one, which is the greedy
\* match for patterns whose repetitions are delimited by the next token.
RegexMatch(r, s) ==
    LET starts == {i \in 0..Len(s) : Ends(r, s, {i}) # {}}
    IN  IF starts = {} THEN <<>>
        ELSE LET i == CHOOSE x \in starts : \A y \in starts : x <= y
                 e == Ends(r, s, {i})
                 j == CHOOSE x \in e : \A y \in e : x >= y
             IN  SubSeq(s, i + 1, j)

(***************************************************************************)
(* Intent classifier (services/intent-detector.service.ts)                 *)
(***************************************************************************)

\* the words of METADATA_PATTERNS
Words ==
    [list |-> <<"l","i","s","t">>,
     show |-> <<"s","h","o","w">>,
     display |-> <<"d","i","s","p","l","a","y">>,
     get |-> <<"g","e","t">>,
     all |-> <<"a","l","l">>,
     document |-> <<"d","o","c","u","m","e","n","t">>,
     file |-> <<"f","i","l","e">>,
     pdf |-> <<"p","d","f">>,
     s |-> <<"s">>,
     what |-> <<"w","h","a","t">>,
     are |-> <<"a","r","e">>,
     were |-> <<"w","e","r","e">>,
     uploaded |-> <<"u","p","l","o","a","d","e","d">>,
     available |-> <<"a","v","a","i","l","a","b","l","e">>,
     present |-> <<"p","r","e","s","e","n","t">>,
     here |-> <<"h","e","r","e">>,
     how |-> <<"h","o","w">>,
     many |-> <<"m","a","n","y">>,
     name |-> <<"n","a","m","e">>,
     title |-> <<"t","i","t","l","e">>,
     me |-> <<"m","e">>,
     the |-> <<"t","h","e">>,
     give |-> <<"g","i","v","e">>,
     which |-> <<"w","h","i","c","h">>,
     have_been |-> <<"h","a","v","e"," ","b","e","e","n">>]

\* (documents?|files?|pdfs?)
DocWord == Alt(<<Cat(<<LitI(Words.document), Opt(LitI(Words.s))>>), Cat(<<LitI(Words.file), Opt(LitI(Words.s))>>), Cat(<<LitI(Words.pdf), Opt(LitI(Words.s))>>)>>)
\* (documents?|files?)
DocOrFile == Alt(<<Cat(<<LitI(Words.document), Opt(LitI(Words.s))>>), Cat(<<LitI(Words.file), Opt(LitI(Words.s))>>)>>)
\* METADATA_PATTERNS, in the order of the source:
\*  1. /\b(list|show|display|get)\s+(all\s+)?(documents?|files?|pdfs?)\b/i
\*  2. /\bwhat\s+(documents?|files?|pdfs?)\s+(are|were|have been)?\s*(uploaded|available|present|here)\b/i
\*  3. /\bhow\s+many\s+(documents?|files?|pdfs?)\b/i
\*  4. /\b(document|file)\s+(names?|titles?|list)\b/i
\*  5. /\ball\s+(uploaded|available)\s+(documents?|files?)\b/i
\*  6. /\b(show|give)\s+me\s+(the\s+)?(documents?|files?|document\s+list|file\s+list)\b/i
\*  7. /\bwhich\s+(documents?|files?|pdfs?)\b/i
METADATA_PATTERNS ==
    <<
      Cat(<<WordB, Alt(<<LitI(Words.list), LitI(Words.show), LitI(Words.display), LitI(Words.get)>>), White(1),
            Opt(Cat(<<LitI(Words.all), White(1)>>)), DocWord, WordB>>),
      Cat(<<WordB, LitI(Words.what), White(1), DocWord, White(1),
            Opt(Alt(<<LitI(Words.are), LitI(Words.were), LitI(Words.have_been)>>)), White(0),
            Alt(<<LitI(Words.uploaded), LitI(Words.available), LitI(Words.present), LitI(Words.here)>>), WordB>>),
      Cat(<<WordB, LitI(Words.how), White(1), LitI(Words.many), White(1), DocWord, WordB>>),
      Cat(<<WordB, Alt(<<LitI(Words.document), LitI(Words.file)>>), White(1),
            Alt(<<Cat(<<LitI(Words.name), Opt(LitI(Words.s))>>), Cat(<<LitI(Words.title), Opt(LitI(Words.s))>>), LitI(Words.list)>>), WordB>>),
      Cat(<<WordB, LitI(Words.all), White(1), Alt(<<LitI(Words.uploaded), LitI(Words.available)>>), White(1),
            DocOrFile, WordB>>),
      Cat(<<WordB, Alt(<<LitI(Words.show), LitI(Words.give)>>), White(1), LitI(Words.me), White(1),
            Opt(Cat(<<LitI(Words.the), White(1)>>)),
            Alt(<<Cat(<<LitI(Words.document), Opt(LitI(Words.s))>>), Cat(<<LitI(Words.file), Opt(LitI(Words.s))>>),
                  Cat(<<LitI(Words.document), White(1), LitI(Words.list)>>),
                  Cat(<<LitI(Words.file), White(1), LitI(Words.list)>>)>>), WordB>>),
      Cat(<<WordB, LitI(Words.which), White(1), DocWord, WordB>>)
    >>

\* a request field that is not a string (undefined, a number, an object)
NotAString == <<"#not-a-string">>

detectQueryIntent(query) ==
    IF query = NotAString \/ query = <<>> THEN "content"
    ELSE LET normalized == toLowerCase(trim(query))
         IN  IF normalized = <<>> THEN "content"
             ELSE IF \E k \in 1..Len(METADATA_PATTERNS) :
                        RegexTest(METADATA_PATTERNS[k], normalized)
                  THEN "metadata"
                  ELSE "content"

(***************************************************************************)
(* Shared constants (config/constants.ts)                                  *)
(***************************************************************************)

FALLBACK_PHRASES ==
    <<<<"d","o"," ","n","o","t"," ","c","o","n","t","a","i","n">>,
      <<"i"," ","d","o","n","'","t"," ","k","n","o","w">>,
      <<"c","a","n","n","o","t"," ","f","i","n","d">>,
      <<"n","o"," ","i","n","f","o","r","m","a","t","i","o","n">>>>

isAnswerNotFound(answer) ==
    IF answer = <<>> THEN TRUE
    ELSE LET lowerAnswer == toLowerCase(answer)
         IN  \E k \in 1..Len(FALLBACK_PHRASES) :
                 includes(lowerAnswer, FALLBACK_PHRASES[k])

\* "The uploaded documents do not contain this information."
CanonicalFallback ==
    <<"T","h","e"," ","u","p","l","o","a","d","e","d"," ","d","o","c","u","m","e","n","t","s"," ","d","o"," ","n","o","t"," ","c","o","n","t","a","i","n"," ","t","h","i","s"," ","i","n","f","o","r","m","a","t","i","o","n",".">>

(***************************************************************************)
(* Environment (config/env.ts)                                             *)
(***************************************************************************)

DEFAULT_TOP_K == 5
MAX_CONTEXT_CHUNKS == 8
\* scores are in hundredths: 0.15
MIN_RETRIEVAL_SCORE == 15

(***************************************************************************)
(* The vector store.  A point has an id and a payload; the similarity of   *)
(* a point to the query embedding is the per-request function score.       *)
(***************************************************************************)

DocA == <<"A">>
DocB == <<"B">>
DocC == <<"C">>
\* a document id no point carries
DocZ == <<"Z">>
\* a payload field that is absent (undefined) or the empty string: falsy
Absent == <<>>

FileA == <<"a",".","t","x","t">>
FileB == <<"b",".","t","x","t">>
FileC == <<"c",".","t","x","t">>


\* every point the store may hold, in the store's own order
PointIds == <<"a0", "a1", "b0", "c0", "x1">>

Payload ==
    [id \in {PointIds[k] : k \in 1..Len(PointIds)} |->
        CASE id = "a0" -> [doc_id |-> DocA, chunk_index |-> 0, source_file |-> FileA, text |-> <<"R","A","V","I"," ","K">>]
          [] id = "a1" -> [doc_id |-> DocA, chunk_index |-> 1, source_file |-> FileA, text |-> <<"S","Q","L"," ","D","B">>]
          [] id = "b0" -> [doc_id |-> DocB, chunk_index |-> 0, source_file |-> FileB, text |-> <<"B","o","b"," ","R","a","y">>]
          [] id = "c0" -> [doc_id |-> DocC, chunk_index |-> 0, source_file |-> FileC, text |-> <<"I","n","v","o","i","c","e"," ","7">>]
          [] id = "x1" -> [doc_id |-> Absent, chunk_index |-> 1, source_file |-> Absent, text |-> <<"s","t","r","a","y">>]]

\* the similarity scores a point can have, in hundredths
ScoreVals == {10, 15, 80}

\* the first n elements of a sequence
Take(s, n) == SubSeq(s, 1, IF n < Len(s) THEN n ELSE Len(s))

\* the elements of s that are in set keep, order preserved
RECURSIVE SelectIds(_, _)
SelectIds(s, keep) ==
    IF s = <<>> THEN <<>>
    ELSE IF Head(s) \in keep THEN <<Head(s)>> \o SelectIds(Tail(s), keep)
         ELSE SelectIds(Tail(s), keep)

\* buildMatchCondition applied by the store: a "must" list of key/value matches
MatchesMust(id, must) ==
    \A k \in 1..Len(must) :
        CASE must[k].key = "doc_id"      -> Payload[id].doc_id = must[k].value
          [] must[k].key = "source_file" -> Payload[id].source_file = must[k].value
          [] must[k].key = "chunk_index" -> Payload[id].chunk_index = must[k].value

\* ids ordered by score descending, ties in the store's order
RECURSIVE InsertByScore(_, _, _)
InsertByScore(sorted, id, sc) ==
    IF sorted = <<>> THEN <<id>>
    ELSE IF sc[id] > sc[Head(sorted)] THEN <<id>> \o sorted
         ELSE <<Head(sorted)>> \o InsertByScore(Tail(sorted), id, sc)

RECURSIVE RankByScore(_, _)
RankByScore(ids, sc) ==
    IF ids = <<>> THEN <<>>
    ELSE InsertByScore(RankByScore(SubSeq(ids, 1, Len(ids) - 1), sc), ids[Len(ids)], sc)

\* qdrant.search: the limit nearest points that satisfy the filter, each with its score
QdrantSearch(points, sc, must, limit) ==
    LET hits == SelectIds(PointIds, {id \in points : MatchesMust(id, must)})
        top  == Take(RankByScore(hits, sc), limit)
    IN  [k \in 1..Len(top) |-> [id |-> top[k], scored |-> TRUE, score |-> sc[top[k]]]]

\* qdrant.scroll: up to limit points that satisfy the filter, without a score
QdrantScroll(points, must, limit) ==
    LET hits == Take(SelectIds(PointIds, {id \in points : MatchesMust(id, must)}), limit)
    IN  [k \in 1..Len(hits) |-> [id |-> hits[k], scored |-> FALSE, score |-> 0]]

(***************************************************************************)
(* Retriever (services/vector-search.service.ts)                           *)
(***************************************************************************)

\* a filters object: absent keys are Absent
NoFilters == [doc_id |-> Absent, source_file |-> Absent]

\* variant: the doc_id filter is not passed to the store
MustConditions_NoDocId(filters) ==
    IF filters.source_file # Absent
    THEN <<[key |-> "source_file", value |-> filters.source_file]>> ELSE <<>>

\* mustConditions
MustConditions(filters) ==
    (IF filters.source_file # Absent
     THEN <<[key |-> "source_file", value |-> filters.source_file]>> ELSE <<>>)
    \o
    (IF filters.doc_id # Absent
     THEN <<[key |-> "doc_id", value |-> filters.doc_id]>> ELSE <<>>)

\* variant: uniqueMap.set without the has() test, the last occurrence wins
RECURSIVE DedupById_KeepLast(_, _)
DedupById_KeepLast(combined, seen) ==
    IF combined = <<>> THEN <<>>
    ELSE IF Head(combined).id \in seen THEN DedupById_KeepLast(Tail(combined), seen)
         ELSE LET same == SelectSeq(combined, LAMBDA r : r.id = Head(combined).id)
              IN  <<same[Len(same)]>>
                  \o DedupById_KeepLast(Tail(combined), seen \cup {Head(combined).id})

\* uniqueMap: the first occurrence of every point id
RECURSIVE DedupById(_, _)
DedupById(combined, seen) ==
    IF combined = <<>> THEN <<>>
    ELSE IF Head(combined).id \in seen THEN DedupById(Tail(combined), seen)
         ELSE <<Head(combined)>> \o DedupById(Tail(combined), seen \cup {Head(combined).id})

\* the limit of the header scroll
HEADER_SCROLL_LIMIT == 100

\* ensureQdrantReady when the store answers: a missing collection is created
ensureQdrantReady(coll) == IF coll = "absent" THEN "created" ELSE coll

\* vectorSearch(embedding, topK, filters) with the default scoreThreshold -1
vectorSearch(points, sc, topK, filters) ==
    LET mustConditions  == MustConditions(filters)
        semanticResults == QdrantSearch(points, sc, mustConditions, topK)
        headerFilter    == mustConditions \o <<[key |-> "chunk_index", value |-> 0]>>
        headerPoints    == QdrantScroll(points, headerFilter, HEADER_SCROLL_LIMIT)
        combined        == semanticResults \o headerPoints
    IN  DedupById(combined, {})

(***************************************************************************)
(* Language model (rag/llm.ts)                                             *)
(***************************************************************************)

\* what the model may return as message content, before trimming
ContentEmpty    == <<" ">>
ContentIdk      == <<"I"," ","D","O","N","'","T"," ","K","N","O","W",".">>
ContentRavi      == <<" ","R","a","v","i","."," ">>

LLMContents == {ContentEmpty, CanonicalFallback, ContentIdk, ContentRavi}

\* generateLLMAnswer / mergeLLMAnswers after the completion call returned content
AnswerOfContent(content) ==
    LET answer == trim(content)
    IN  IF answer = <<>> THEN CanonicalFallback ELSE answer

(***************************************************************************)
(* POST /api/query: the synchronous computations of the handler            *)
(***************************************************************************)

Max(a, b) == IF a >= b THEN a ELSE b
Min(a, b) == IF a <= b THEN a ELSE b

\* topK of the request body: a number, undefined, or a value of another type
TopKNumber(n) == [kind |-> "number", val |-> n]
TopKUndefined == [kind |-> "undefined", val |-> 0]
TopKOther     == [kind |-> "other", val |-> 0]

\* variant: no upper bound
ClampTopK_NoUpperBound(t) ==
    LET given == IF t.kind = "number" THEN t.val ELSE DEFAULT_TOP_K
    IN  Max(1, given)

\* destructuring default, type check and Math.max(1, Math.min(topK, MAX))
ClampTopK(t) ==
    LET given == IF t.kind = "number" THEN t.val ELSE DEFAULT_TOP_K
    IN  Max(1, Min(given, MAX_CONTEXT_CHUNKS))

\* variant: the caller's filters are spread over the scope's doc_id
FinalFilters_CallerWins(filters, sc, docId) ==
    IF sc = "current_file"
    THEN IF filters.doc_id # Absent THEN filters ELSE [filters EXCEPT !.doc_id = docId]
    ELSE [filters EXCEPT !.doc_id = Absent]

\* finalFilters: the caller's filters with doc_id set or deleted by scope
FinalFilters(filters, sc, docId) ==
    IF sc = "current_file"
    THEN [filters EXCEPT !.doc_id = docId]
    ELSE [filters EXCEPT !.doc_id = Absent]

\* variant: the enumeration is given the caller's filters
EnumerateFilters_Caller(callerFilters) == callerFilters

\* all_files: the filters of the search that enumerates the documents, {}
EnumerateFilters(callerFilters) == NoFilters

\* all_files: the filters of the search of one document, { doc_id: docId }
DocFilters(docId) == [NoFilters EXCEPT !.doc_id = docId]

\* Array.from(new Set(results.map(doc_id).filter(Boolean)))
RECURSIVE UniqueDocIds(_, _)
UniqueDocIds(results, seen) ==
    IF results = <<>> THEN <<>>
    ELSE LET d == Payload[Head(results).id].doc_id
         IN  IF d = Absent \/ d \in seen THEN UniqueDocIds(Tail(results), seen)
             ELSE <<d>> \o UniqueDocIds(Tail(results), seen \cup {d})

PerDocK(topK, n) == Max(2, topK \div n)

\* allChunks.sort((a, b) => (b.score || 0) - (a.score || 0)), a stable sort
RECURSIVE InsertScoreDesc(_, _)
InsertScoreDesc(sorted, x) ==
    IF sorted = <<>> THEN <<x>>
    ELSE IF x.score > Head(sorted).score THEN <<x>> \o sorted
         ELSE <<Head(sorted)>> \o InsertScoreDesc(Tail(sorted), x)

RECURSIVE SortScoreDesc(_)
SortScoreDesc(items) ==
    IF items = <<>> THEN <<>>
    ELSE InsertScoreDesc(SortScoreDesc(SubSeq(items, 1, Len(items) - 1)), items[Len(items)])

\* all_files: sorted by score, the first 2 * topK
PreRanking(allChunks, topK) == Take(SortScoreDesc(allChunks), topK * 2)

\* variant: the score is not compared with the minimum
SafeResults_NoThreshold(searchResults) ==
    SelectSeq(searchResults, LAMBDA r : r.scored)

\* variant: only a numeric score below the minimum is dropped
SafeResults_KeepUnscored(searchResults) ==
    SelectSeq(searchResults, LAMBDA r : ~(r.scored /\ r.score < MIN_RETRIEVAL_SCORE))

\* safeResults
SafeResults(searchResults) ==
    SelectSeq(searchResults, LAMBDA r : r.scored /\ r.score >= MIN_RETRIEVAL_SCORE)

\* rank of a character for localeCompare (letters before other characters are not needed)
RankOf == [c \in UpperSet |-> CHOOSE k \in 1..26 : UpperChars[k] = c]
CharRank(c) == IF c \in UpperSet THEN RankOf[c] ELSE 0

\* a.localeCompare(b) < 0 on document ids
RECURSIVE DocBefore(_, _)
DocBefore(a, b) ==
    IF b = <<>> THEN FALSE
    ELSE IF a = <<>> THEN TRUE
    ELSE IF CharRank(Head(a)) # CharRank(Head(b)) THEN CharRank(Head(a)) < CharRank(Head(b))
    ELSE DocBefore(Tail(a), Tail(b))

\* the comparator of orderedChunks is negative
ChunkBefore(x, y) ==
    LET dx == Payload[x.id].doc_id
        dy == Payload[y.id].doc_id
    IN  IF dx # dy THEN DocBefore(dx, dy)
        ELSE Payload[x.id].chunk_index < Payload[y.id].chunk_index

RECURSIVE InsertChunk(_, _)
InsertChunk(sorted, x) ==
    IF sorted = <<>> THEN <<x>>
    ELSE IF ChunkBefore(x, Head(sorted)) THEN <<x>> \o sorted
         ELSE <<Head(sorted)>> \o InsertChunk(Tail(sorted), x)

RECURSIVE SortChunks(_)
SortChunks(items) ==
    IF items = <<>> THEN <<>>
    ELSE InsertChunk(SortChunks(SubSeq(items, 1, Len(items) - 1)), items[Len(items)])

\* variant: the results are cut to topK before they are sorted
OrderedChunks_TruncateFirst(safeResults, topK) == SortChunks(Take(safeResults, topK))

\* orderedChunks: sorted by (doc_id, chunk_index), the first topK
OrderedChunks(safeResults, topK) == Take(SortChunks(safeResults), topK)

\* ragChunks
RagChunks(orderedChunks) ==
    [k \in 1..Len(orderedChunks) |->
        [text        |-> Payload[orderedChunks[k].id].text,
         doc_id      |-> Payload[orderedChunks[k].id].doc_id,
         source_file |-> Payload[orderedChunks[k].id].source_file,
         score       |-> orderedChunks[k].score]]

UnknownKey == <<"u","n","k","n","o","w","n">>
UnknownFile == <<"U","n","k","n","o","w","n">>

\* key of a chunk in chunksByDoc
GroupKey(chunk) == IF chunk.doc_id = Absent THEN UnknownKey ELSE chunk.doc_id

\* Array.from(chunksByDoc.keys()): keys in order of first insertion
RECURSIVE GroupKeys(_, _)
GroupKeys(chunks, seen) ==
    IF chunks = <<>> THEN <<>>
    ELSE LET k == GroupKey(Head(chunks))
         IN  IF k \in seen THEN GroupKeys(Tail(chunks), seen)
             ELSE <<k>> \o GroupKeys(Tail(chunks), seen \cup {k})

\* variant: every Map call is given the whole ranked chunk set
ChunksOfDoc_All(chunks, docId) == chunks

\* chunksByDoc.get(docId)
ChunksOfDoc(chunks, docId) == SelectSeq(chunks, LAMBDA c : GroupKey(c) = docId)

\* variant: every all_files query runs Map-Reduce
UseMapReduce_AllFiles(sc, chunks) == sc = "all_files"

\* the Map-Reduce decision
UseMapReduce(sc, chunks) == sc = "all_files" /\ Len(GroupKeys(chunks, {})) > 1

\* one entry of perDocAnswers
PerDocAnswer(docId, docChunks, docAnswer) ==
    [doc_id      |-> docId,
     source_file |-> IF docChunks[1].source_file = Absent THEN UnknownFile
                     ELSE docChunks[1].source_file,
     answer      |-> docAnswer,
     chunk_count |-> Len(docChunks)]

\* realAnswers
RealAnswers(perDocAnswers) ==
    SelectSeq(perDocAnswers, LAMBDA item : item.answer # <<>> /\ ~isAnswerNotFound(item.answer))

\* variant: the shortcut returns the first entry instead of the real one
Reduce_FirstEntry(perDocAnswers) ==
    LET allNotFound == \A k \in 1..Len(perDocAnswers) :
                           perDocAnswers[k].answer = <<>> \/ isAnswerNotFound(perDocAnswers[k].answer)
        realAnswers == RealAnswers(perDocAnswers)
    IN  IF allNotFound THEN [kind |-> "fallback", answer |-> CanonicalFallback]
        ELSE IF Len(realAnswers) = 1 THEN [kind |-> "direct", answer |-> perDocAnswers[1].answer]
        ELSE [kind |-> "merge", answer |-> <<>>]

\* variant: no all-not-found check
Reduce_NoFallbackCheck(perDocAnswers) ==
    LET realAnswers == RealAnswers(perDocAnswers)
    IN  IF Len(realAnswers) = 1 THEN [kind |-> "direct", answer |-> realAnswers[1].answer]
        ELSE [kind |-> "merge", answer |-> <<>>]

\* REDUCE phase: what is decided before any merge call
Reduce(perDocAnswers) ==
    LET allNotFound == \A k \in 1..Len(perDocAnswers) :
                           perDocAnswers[k].answer = <<>> \/ isAnswerNotFound(perDocAnswers[k].answer)
        realAnswers == RealAnswers(perDocAnswers)
    IN  IF allNotFound THEN [kind |-> "fallback", answer |-> CanonicalFallback]
        ELSE IF Len(realAnswers) = 1 THEN [kind |-> "direct", answer |-> realAnswers[1].answer]
        ELSE [kind |-> "merge", answer |-> <<>>]

INVALID_NAME_PATTERNS ==
    <<<<"S","Q","L">>,
      <<"H","T","M","L">>,
      <<"C","S","S">>,
      <<"J","A","V","A">>,
      <<"P","Y","T","H","O","N">>,
      <<"J","A","V","A","S","C","R","I","P","T">>,
      <<"R","E","A","C","T">>,
      <<"N","O","D","E">>,
      <<"A","P","I">>,
      <<"H","T","T","P">>,
      <<"J","S","O","N">>>>

\* (?:\s+[A-Z]{1,2})
NameTail == Cat(<<White(1), UpperRun(1, 2)>>)

\* /\b([A-Z]{2,}(?:\s+[A-Z]{1,2}){1,3})\b/
NamePattern ==
    Cat(<<WordB, UpperRun(2, -1), NameTail, Opt(Cat(<<NameTail, Opt(NameTail)>>)), WordB>>)

\* Array.prototype.join
RECURSIVE Join(_, _)
Join(parts, sep) ==
    IF parts = <<>> THEN <<>>
    ELSE IF Len(parts) = 1 THEN parts[1]
    ELSE parts[1] \o sep \o Join(Tail(parts), sep)

NoRelevantContent == <<"N","o"," ","r","e","l","e","v","a","n","t"," ","c","o","n","t","e","n","t"," ","w","a","s"," ","f","o","u","n","d"," ","i","n"," ","t","h","e"," ","u","p","l","o","a","d","e","d"," ","d","o","c","u","m","e","n","t","s",".">>

NameSentence == <<"T","h","e"," ","n","a","m","e"," ","o","f"," ","t","h","e"," ","p","e","r","s","o","n"," ","i","n"," ","t","h","e"," ","r","e","s","u","m","e"," ","i","s"," ">>

\* variant: the name extraction runs whatever the answer is
NameFallback_Always(answer, ragChunks) ==
    LET firstTwo == Take(ragChunks, 2)
        candidateText == Join([k \in 1..Len(firstTwo) |-> firstTwo[k].text], <<"\n">>)
        nameMatch == RegexMatch(NamePattern, candidateText)
    IN  IF /\ nameMatch # <<>>
           /\ ~\E k \in 1..Len(INVALID_NAME_PATTERNS) : INVALID_NAME_PATTERNS[k] = nameMatch
        THEN NameSentence \o trim(nameMatch) \o <<".">>
        ELSE answer

\* variant: the denylist is compared with the first token of the candidate
NameFallback_DenyFirstToken(answer, ragChunks) ==
    IF isAnswerNotFound(answer)
    THEN LET firstTwo == Take(ragChunks, 2)
             candidateText == Join([k \in 1..Len(firstTwo) |-> firstTwo[k].text], <<"\n">>)
             nameMatch == RegexMatch(NamePattern, candidateText)
             firstToken == Take(nameMatch,
                                Cardinality({i \in 1..Len(nameMatch) :
                                    \A j \in 1..i : nameMatch[j] \notin WhiteChars}))
         IN  IF /\ nameMatch # <<>>
                /\ ~\E k \in 1..Len(INVALID_NAME_PATTERNS) : INVALID_NAME_PATTERNS[k] = firstToken
             THEN NameSentence \o trim(nameMatch) \o <<".">>
             ELSE answer
    ELSE answer

\* Deterministic fallback for resume name extraction
NameFallback(answer, ragChunks) ==
    IF isAnswerNotFound(answer)
    THEN LET firstTwo == Take(ragChunks, 2)
             candidateText == Join([k \in 1..Len(firstTwo) |-> firstTwo[k].text], <<"\n">>)
             nameMatch == RegexMatch(NamePattern, candidateText)
         IN  IF /\ nameMatch # <<>>
                /\ ~\E k \in 1..Len(INVALID_NAME_PATTERNS) : INVALID_NAME_PATTERNS[k] = nameMatch
             THEN NameSentence \o trim(nameMatch) \o <<".">>
             ELSE answer
    ELSE answer

\* sourcesMap: the first chunk of every doc_id|source_file key
RECURSIVE Sources(_, _)
Sources(chunks, seen) ==
    IF chunks = <<>> THEN <<>>
    ELSE LET c   == Head(chunks)
             key == <<IF c.doc_id = Absent THEN UnknownKey ELSE c.doc_id,
                      IF c.source_file = Absent THEN UnknownKey ELSE c.source_file>>
         IN  IF (c.doc_id = Absent /\ c.source_file = Absent) \/ key \in seen
             THEN Sources(Tail(chunks), seen)
             ELSE <<[doc_id |-> c.doc_id, source_file |-> c.source_file]>>
                  \o Sources(Tail(chunks), seen \cup {key})

\* Array.from(new Set(labels)): first occurrences
RECURSIVE Distinct(_, _)
Distinct(items, seen) ==
    IF items = <<>> THEN <<>>
    ELSE IF Head(items) \in seen THEN Distinct(Tail(items), seen)
         ELSE <<Head(items)>> \o Distinct(Tail(items), seen \cup {Head(items)})

AnsweringFrom == <<"A","n","s","w","e","r","i","n","g"," ","f","r","o","m",":"," ">>

\* Document-aware answer prefix (only for single-pass)
PrefixedAnswer(answer, sources, usedMapReduce) ==
    LET documentLabels ==
            [k \in 1..Len(sources) |->
                IF sources[k].source_file # Absent THEN sources[k].source_file
                ELSE sources[k].doc_id]
        uniqueDocs == Distinct(documentLabels, {})
    IN  IF ~usedMapReduce /\ Len(sources) > 0 /\ Len(documentLabels) > 0
        THEN AnsweringFrom \o Join(uniqueDocs, <<",", " ">>) \o <<"\n", "\n">> \o answer
        ELSE answer

(***************************************************************************)
(* Responses                                                               *)
(***************************************************************************)

NoResponse == [status |-> 0, kind |-> "none"]

ErrorResponse(code, message) == [status |-> code, kind |-> "error", error |-> message]

MetadataResponse(q, documents) ==
    [status |-> 200, kind |-> "metadata", query |-> q, intent |-> "metadata",
     documents |-> documents, count |-> Len(documents)]

NoDebug == [present |-> FALSE, topK |-> 0, filters |-> NoFilters, chunks |-> <<>>]

AnswerResponse(q, sc, answer, sources, dbg) ==
    [status |-> 200, kind |-> "answer", query |-> q, scope |-> sc,
     answer |-> answer, sources |-> sources, debug |-> dbg]

\* the early returns with the canonical fallback and no sources
FallbackResponse(q, sc) == AnswerResponse(q, sc, CanonicalFallback, <<>>, NoDebug)

\* variant: the debug payload does not depend on the request's debug flag
DebugInfo_Unasked(dbg, env, k, filters, ragChunks) ==
    IF env # "production"
    THEN [present |-> TRUE, topK |-> k, filters |-> filters,
          chunks |-> [i \in 1..Len(ragChunks) |->
                        [chunk |-> i, doc_id |-> ragChunks[i].doc_id,
                         source_file |-> ragChunks[i].source_file,
                         score |-> ragChunks[i].score,
                         preview |-> Take(ragChunks[i].text, 200)]]]
    ELSE NoDebug

\* response.debug
DebugInfo(dbg, env, k, filters, ragChunks) ==
    IF dbg /\ env # "production"
    THEN [present |-> TRUE, topK |-> k, filters |-> filters,
          chunks |-> [i \in 1..Len(ragChunks) |->
                        [chunk |-> i, doc_id |-> ragChunks[i].doc_id,
                         source_file |-> ragChunks[i].source_file,
                         score |-> ragChunks[i].score,
                         preview |-> Take(ragChunks[i].text, 200)]]]
    ELSE NoDebug

\* from "Existing fallback logic" to res.json(response)
FinalResponse(q, sc, rawAnswer, ragChunks, dbg, env, k, filters) ==
    IF trim(rawAnswer) = <<>> THEN FallbackResponse(q, sc)
    ELSE LET answer  == NameFallback(rawAnswer, ragChunks)
             sources == Sources(ragChunks, {})
         IN  IF trim(answer) = <<>> THEN FallbackResponse(q, sc)
             ELSE AnswerResponse(q, sc,
                                 PrefixedAnswer(answer, sources, UseMapReduce(sc, ragChunks)),
                                 sources,
                                 DebugInfo(dbg, env, k, filters, ragChunks))

(***************************************************************************)
(* Metadata resolver (services/metadata-handler.service.ts)                *)
(***************************************************************************)

METADATA_SCROLL_LIMIT == 100

\* new Map(metadata.map(doc => [doc.doc_id, doc])).values(): one entry per
\* doc_id, at the position of its first occurrence, holding its last value
RECURSIVE LastPerDoc(_, _)
LastPerDoc(metadata, seen) ==
    IF metadata = <<>> THEN <<>>
    ELSE LET d == Head(metadata).doc_id
             same == SelectSeq(metadata, LAMBDA m : m.doc_id = d)
         IN  IF d \in seen THEN LastPerDoc(Tail(metadata), seen)
             ELSE <<same[Len(same)]>> \o LastPerDoc(Tail(metadata), seen \cup {d})

\* variant: the scroll asks for a page of two points
getDocumentMetadata_ShortPage(points) ==
    LET response == QdrantScroll(points, <<[key |-> "chunk_index", value |-> 0]>>, 2)
        metadata == SelectSeq([k \in 1..Len(response) |->
                                  [doc_id      |-> Payload[response[k].id].doc_id,
                                   source_file |-> Payload[response[k].id].source_file]],
                              LAMBDA doc : doc.doc_id # Absent)
    IN  LastPerDoc(metadata, {})

getDocumentMetadata(points) ==
    LET response == QdrantScroll(points, <<[key |-> "chunk_index", value |-> 0]>>,
                                 METADATA_SCROLL_LIMIT)
        metadata == SelectSeq([k \in 1..Len(response) |->
                                  [doc_id      |-> Payload[response[k].id].doc_id,
                                   source_file |-> Payload[response[k].id].source_file]],
                              LAMBDA doc : doc.doc_id # Absent)
    IN  LastPerDoc(metadata, {})

(***************************************************************************)
(* Request bodies                                                          *)
(***************************************************************************)

\* a body field that was not sent, for fields with a destructuring default
UndefinedField == "#undefined"

q_blank   == <<" ","\t"," ">>
q_list    == <<"L","i","s","t"," ","a","l","l"," "," ","F","i","l","e","s","?">>
q_name    == <<" ","w","h","a","t"," ","i","s","\t","t","h","e"," ","n","a","m","e"," ">>

QueryInputs  == {NotAString, q_blank, q_list, q_name}
ScopeInputs  == {"current_file", "all_files", "bogus", UndefinedField}
DocIdInputs  == {Absent, DocA, DocZ, <<" ">>, NotAString}
TopKInputs   == {TopKUndefined, TopKOther, TopKNumber(0), TopKNumber(2), TopKNumber(1000)}
FilterInputs == {NoFilters, [doc_id |-> DocB, source_file |-> Absent],
                 [doc_id |-> Absent, source_file |-> FileB]}

AllBodies ==
    [query : QueryInputs, scope : ScopeInputs, doc_id : DocIdInputs,
     topK : TopKInputs, debug : BOOLEAN, filters : FilterInputs]

\* how many of the optional fields topK, debug and filters a body sets
OptionsSet(b) ==
    (IF b.topK # TopKUndefined THEN 1 ELSE 0) + (IF b.debug THEN 1 ELSE 0)
    + (IF b.filters # NoFilters THEN 1 ELSE 0)

\* the request bodies explored: a document id is sent only with a scope that
\* is not all_files, the scope is left out only by a body without options,
\* and a body sets at most MaxOptions of its optional fields
MaxOptions == 1

Bodies ==
    {b \in AllBodies :
        /\ b.scope \in {"all_files", UndefinedField} => b.doc_id = Absent
        /\ b.scope = UndefinedField => OptionsSet(b) = 0
        /\ OptionsSet(b) <= MaxOptions}

\* the contents the store may have
Corpora == {{}, {"a0", "a1", "x1"}, {"a0", "a1", "b0"}, {"a0", "b0", "c0"}}

(***************************************************************************)
(* State                                                                   *)
(***************************************************************************)

VARIABLES
    corpus,           \* ids of the points in the collection
    collection,       \* "present", "absent", or "created" by ensureQdrantReady
    nodeEnv,          \* ENV.NODE_ENV
    pc,               \* where the handler is: "idle", an await, or "responded"
    body,             \* req.body
    scope, topK, debug, normalizedQuery, intent, finalFilters,   \* handler locals
    score,            \* similarity of every point to the query embedding
    docQueue,         \* all_files: the document ids still to be searched
    allChunks,        \* all_files: the per-document results so far
    searchResults,
    orderedChunks,
    mapTasks,         \* perDocPromises: document id -> state of its Map call
    perDocAnswers,    \* what Promise.all resolved to
    reduced,          \* the decision of the REDUCE phase, once taken
    response,         \* what was sent to the client
    mapFailures,      \* the document ids whose Map call threw
    answer,           \* "let answer", as the synthesis left it
    uploads,          \* POST /api/upload: the requests and the processes they spawned
    inProgressUploads,\* file hash -> doc_id of the upload being ingested
    storedHashes,     \* the <<file_hash, doc_id>> pairs of the points in the collection
    metadataCalls, embedCalls, searchCalls, llmCalls, mergeCalls   \* calls issued

envVars   == <<corpus, collection, nodeEnv>>
reqVars   == <<body, scope, topK, debug, normalizedQuery, intent, finalFilters>>
retrVars  == <<score, docQueue, allChunks, searchResults, orderedChunks>>
synthVars == <<mapTasks, perDocAnswers, reduced>>
callVars  == <<metadataCalls, embedCalls, searchCalls, llmCalls, mergeCalls>>
uploadVars == <<uploads, inProgressUploads, storedHashes>>
queryVars == <<pc, reqVars, retrVars, synthVars, response, mapFailures, answer, callVars>>
vars      == <<envVars, queryVars, uploadVars>>

\* "const intent" before detectQueryIntent has been called
Unclassified == "unclassified"

NoBody   == [query |-> NotAString, scope |-> UndefinedField, doc_id |-> Absent,
             topK |-> TopKUndefined, debug |-> FALSE, filters |-> NoFilters]
NoScore  == [id \in {} |-> 0]
NoTasks  == [d \in {} |-> 0]
NoReduce == [kind |-> "none", answer |-> <<>>]
\* "let searchResults;" before its assignment
NoResults == [assigned |-> FALSE, items |-> <<>>]
\* "let answer: string;" before its assignment
NoAnswer == [assigned |-> FALSE, text |-> <<>>]

Idle ==
    /\ pc = "idle"
    /\ body = NoBody
    /\ scope = "all_files" /\ topK = DEFAULT_TOP_K /\ debug = FALSE
    /\ normalizedQuery = <<>> /\ intent = Unclassified /\ finalFilters = NoFilters
    /\ score = NoScore /\ docQueue = <<>> /\ allChunks = <<>>
    /\ searchResults = NoResults /\ orderedChunks = <<>>
    /\ mapTasks = NoTasks /\ perDocAnswers = <<>> /\ reduced = NoReduce
    /\ response = NoResponse
    /\ mapFailures = {}
    /\ answer = NoAnswer
    /\ metadataCalls = 0 /\ embedCalls = 0 /\ searchCalls = <<>>
    /\ llmCalls = <<>> /\ mergeCalls = <<>>

\* the most requests POST /api/upload receives
MaxUploads == 2

\* the SHA-256 digests of the files that are uploaded
FileHashes == {"h1", "h2"}

\* "!req.file"
NoFile == "none"

\* an upload request that has not arrived; doc_id 0 stands for no doc_id
NewUpload == [pc |-> "new", fileHash |-> NoFile, status |-> 0, message |-> "",
              doc_id |-> 0, python |-> "none"]

\* the module-level state of the upload router after start-up
NoUploads ==
    /\ uploads = [r \in 1..MaxUploads |-> NewUpload]
    /\ inProgressUploads = [h \in {} |-> 0]
    /\ storedHashes = {}

Init ==
    /\ corpus \in Corpora
    /\ collection \in {"present", "absent"}
    /\ collection = "absent" => corpus = {}
    /\ nodeEnv \in {"development", "production"}
    /\ Idle
    /\ NoUploads

(***************************************************************************)
(* POST /api/query, from the start of the handler to its first await       *)
(***************************************************************************)

Respond(r) == pc' = "responded" /\ response' = r

\* doc_id is required when scope is 'current_file'
DocIdMissing(docId) ==
    docId = Absent \/ docId = NotAString \/ trim(docId) = <<>>

\* variant: the metadata test never succeeds
EntryStage_NoMetadata(b, nq, it, sc) ==
    IF b.query = NotAString THEN "queryNotString"
    ELSE IF nq = <<>> THEN "queryEmpty"
    ELSE IF sc \notin {"current_file", "all_files"} THEN "scopeInvalid"
    ELSE IF sc = "current_file" /\ DocIdMissing(b.doc_id) THEN "docIdMissing"
    ELSE "content"

\* variant: the normalized query is not checked for emptiness
EntryStage_NoEmptyCheck(b, nq, it, sc) ==
    IF b.query = NotAString THEN "queryNotString"
    ELSE IF it = "metadata" THEN "metadata"
    ELSE IF sc \notin {"current_file", "all_files"} THEN "scopeInvalid"
    ELSE IF sc = "current_file" /\ DocIdMissing(b.doc_id) THEN "docIdMissing"
    ELSE "content"

\* the order of the checks of the handler before its first await
EntryStage(b, nq, it, sc) ==
    IF b.query = NotAString THEN "queryNotString"
    ELSE IF nq = <<>> THEN "queryEmpty"
    ELSE IF it = "metadata" THEN "metadata"
    ELSE IF sc \notin {"current_file", "all_files"} THEN "scopeInvalid"
    ELSE IF sc = "current_file" /\ DocIdMissing(b.doc_id) THEN "docIdMissing"
    ELSE "content"

Receive(b) ==
    \E sc    \in {IF b.scope = UndefinedField THEN "all_files" ELSE b.scope},
       nq    \in {IF b.query = NotAString THEN <<>> ELSE normalizeQuery(b.query)} :
    \E it    \in {detectQueryIntent(nq)} :
    \E stage \in {EntryStage(b, nq, it, sc)} :
        /\ pc = "idle"
        /\ body' = b
        /\ scope' = sc
        /\ debug' = IF nodeEnv = "production" THEN FALSE ELSE b.debug
        /\ normalizedQuery' = nq
        /\ intent' = IF stage \in {"queryNotString", "queryEmpty"} THEN Unclassified ELSE it
        /\ topK' = IF stage = "content" THEN ClampTopK(b.topK) ELSE topK
        /\ finalFilters' = IF stage = "content"
                           THEN FinalFilters(b.filters, sc, b.doc_id)
                           ELSE finalFilters
        /\ CASE stage = "queryNotString" ->
                  Respond(ErrorResponse(400, "Query text is required"))
                  /\ UNCHANGED callVars
             [] stage = "queryEmpty" ->
                  Respond(ErrorResponse(400, "Query text cannot be empty"))
                  /\ UNCHANGED callVars
             [] stage = "metadata" ->
                  /\ pc' = "awaitMetadata"
                  /\ metadataCalls' = metadataCalls + 1
                  /\ UNCHANGED <<response, embedCalls, searchCalls, llmCalls, mergeCalls>>
             [] stage = "scopeInvalid" ->
                  Respond(ErrorResponse(400, "Invalid scope. Must be 'current_file' or 'all_files'"))
                  /\ UNCHANGED callVars
             [] stage = "docIdMissing" ->
                  Respond(ErrorResponse(400, "doc_id is required when scope is 'current_file'"))
                  /\ UNCHANGED callVars
             [] stage = "content" ->
                  /\ pc' = "awaitEmbedding"
                  /\ embedCalls' = embedCalls + 1
                  /\ UNCHANGED <<response, metadataCalls, searchCalls, llmCalls, mergeCalls>>
        /\ UNCHANGED <<envVars, retrVars, synthVars>>
    /\ UNCHANGED <<mapFailures, answer, uploadVars>>

(***************************************************************************)
(* Metadata branch                                                         *)
(***************************************************************************)

\* getDocumentMetadata resolved, or threw because the scroll failed
MetadataListed(ok) ==
    /\ pc = "awaitMetadata"
    \* a scroll of a collection that does not exist is an error of the store
    /\ ok => collection # "absent"
    /\ IF ok
       THEN Respond(MetadataResponse(normalizedQuery, getDocumentMetadata(corpus)))
       ELSE Respond(ErrorResponse(500, "Failed to retrieve document metadata"))
    /\ UNCHANGED <<envVars, reqVars, retrVars, synthVars, callVars>>
    /\ UNCHANGED <<mapFailures, answer, uploadVars>>

(***************************************************************************)
(* Content branch: embedding and retrieval                                 *)
(***************************************************************************)

\* one call of vectorSearch, as the handler issued it
SearchCall(k, filters) == [topK |-> k, filters |-> filters]

ENUMERATE_LIMIT == 100

\* launch of the MAP phase: one generateLLMAnswer call per document id
MapCalls(q, ragChunks) ==
    LET ids == GroupKeys(ragChunks, {})
    IN  [k \in 1..Len(ids) |->
            [kind |-> "map", doc_id |-> ids[k], question |-> q,
             chunks |-> ChunksOfDoc(ragChunks, ids[k])]]

\* from "if (!searchResults ...)" to the launch of the language-model calls
AfterRetrieval(results) ==
    LET safeResults == SafeResults(results)
        ordered     == OrderedChunks(safeResults, topK)
        ragChunks   == RagChunks(ordered)
        ids         == GroupKeys(ragChunks, {})
    IN  /\ searchResults' = [assigned |-> TRUE, items |-> results]
        /\ IF Len(results) = 0 \/ Len(safeResults) = 0
           THEN /\ Respond(FallbackResponse(normalizedQuery, scope))
                /\ UNCHANGED <<orderedChunks, mapTasks, llmCalls>>
           ELSE /\ orderedChunks' = ordered
                /\ IF Len(ragChunks) = 0
                   THEN /\ Respond(AnswerResponse(normalizedQuery, scope,
                                                  NoRelevantContent, <<>>, NoDebug))
                        /\ UNCHANGED <<mapTasks, llmCalls>>
                   ELSE IF scope = "current_file"
                           /\ ~\E k \in 1..Len(ragChunks) : ragChunks[k].doc_id = body.doc_id
                   THEN /\ Respond(ErrorResponse(400, "Invalid document selection. Document not found."))
                        /\ UNCHANGED <<mapTasks, llmCalls>>
                   ELSE IF UseMapReduce(scope, ragChunks)
                   THEN /\ pc' = "awaitMap"
                        /\ mapTasks' = [d \in {ids[k] : k \in 1..Len(ids)} |->
                                           [status |-> "pending", answer |-> <<>>, seq |-> 0]]
                        /\ llmCalls' = llmCalls \o MapCalls(normalizedQuery, ragChunks)
                        /\ UNCHANGED response
                   ELSE /\ pc' = "awaitSingle"
                        /\ llmCalls' = Append(llmCalls, [kind |-> "single", doc_id |-> Absent,
                                                         question |-> normalizedQuery,
                                                         chunks |-> ragChunks])
                        /\ UNCHANGED <<response, mapTasks>>

\* the catch block of the handler
Fail500 == Respond(ErrorResponse(500, "Failed to process query"))

\* generateEmbedding settled; on success the first vectorSearch is issued
EmbeddingDone(ok, sc) ==
    /\ pc = "awaitEmbedding"
    /\ IF ok
       THEN /\ score' = sc
            /\ IF scope = "all_files"
               THEN /\ pc' = "awaitEnumerate"
                    /\ searchCalls' = Append(searchCalls, SearchCall(ENUMERATE_LIMIT, EnumerateFilters(body.filters)))
               ELSE /\ pc' = "awaitScopedSearch"
                    /\ searchCalls' = Append(searchCalls, SearchCall(topK, finalFilters))
            /\ UNCHANGED response
       ELSE /\ Fail500
            /\ UNCHANGED <<score, searchCalls>>
    /\ UNCHANGED <<envVars, reqVars, docQueue, allChunks, searchResults, orderedChunks,
                   synthVars, metadataCalls, embedCalls, llmCalls, mergeCalls>>
    /\ UNCHANGED <<mapFailures, answer, uploadVars>>

\* all_files: the search that enumerates the documents settled
EnumerateDone(ok) ==
    /\ pc = "awaitEnumerate"
    /\ IF ok
       THEN LET call            == searchCalls[Len(searchCalls)]
                allDocsResponse == vectorSearch(corpus, score, call.topK, call.filters)
                uniqueDocIds    == UniqueDocIds(allDocsResponse, {})
            IN  IF Len(uniqueDocIds) > 0
                THEN /\ pc' = "awaitDocSearch"
                     /\ docQueue' = uniqueDocIds
                     /\ searchCalls' = Append(searchCalls,
                            SearchCall(PerDocK(topK, Len(uniqueDocIds)),
                                       DocFilters(uniqueDocIds[1])))
                     /\ UNCHANGED <<response, searchResults, orderedChunks, mapTasks, llmCalls>>
                ELSE /\ AfterRetrieval(<<>>)
                     /\ UNCHANGED <<docQueue, searchCalls>>
       ELSE /\ Fail500
            /\ UNCHANGED <<docQueue, searchCalls, searchResults, orderedChunks, mapTasks, llmCalls>>
    /\ collection' = IF ok THEN ensureQdrantReady(collection) ELSE collection
    /\ UNCHANGED <<corpus, nodeEnv, reqVars, score, allChunks, perDocAnswers, reduced,
                   metadataCalls, embedCalls, mergeCalls>>
    /\ UNCHANGED <<mapFailures, answer, uploadVars>>

\* all_files: the search of the document at the head of the queue settled
DocSearchDone(ok) ==
    /\ pc = "awaitDocSearch"
    /\ IF ok
       THEN LET call      == searchCalls[Len(searchCalls)]
                docChunks == vectorSearch(corpus, score, call.topK, call.filters)
                chunks    == allChunks \o docChunks
                rest      == Tail(docQueue)
            IN  /\ allChunks' = chunks
                /\ docQueue' = rest
                /\ IF rest # <<>>
                   THEN /\ searchCalls' = Append(searchCalls,
                               SearchCall(call.topK, DocFilters(rest[1])))
                        /\ UNCHANGED <<pc, response, searchResults, orderedChunks, mapTasks, llmCalls>>
                   ELSE /\ AfterRetrieval(PreRanking(chunks, topK))
                        /\ UNCHANGED searchCalls
       ELSE /\ Fail500
            /\ UNCHANGED <<docQueue, allChunks, searchCalls, searchResults, orderedChunks,
                           mapTasks, llmCalls>>
    /\ collection' = IF ok THEN ensureQdrantReady(collection) ELSE collection
    /\ UNCHANGED <<corpus, nodeEnv, reqVars, score, perDocAnswers, reduced,
                   metadataCalls, embedCalls, mergeCalls>>
    /\ UNCHANGED <<mapFailures, answer, uploadVars>>

\* current_file: the one vectorSearch(embedding, topK, finalFilters) settled
ScopedSearchDone(ok) ==
    /\ pc = "awaitScopedSearch"
    /\ IF ok
       THEN AfterRetrieval(vectorSearch(corpus, score, topK, finalFilters))
       ELSE /\ Fail500
            /\ UNCHANGED <<searchResults, orderedChunks, mapTasks, llmCalls>>
    /\ collection' = IF ok THEN ensureQdrantReady(collection) ELSE collection
    /\ UNCHANGED <<corpus, nodeEnv, reqVars, score, docQueue, allChunks, perDocAnswers, reduced,
                   metadataCalls, embedCalls, searchCalls, mergeCalls>>
    /\ UNCHANGED <<mapFailures, answer, uploadVars>>

(***************************************************************************)
(* Content branch: answer synthesis                                        *)
(***************************************************************************)

\* from "Existing fallback logic" to the end of the handler
Finalize(rawAnswer) ==
    /\ answer' = [assigned |-> TRUE, text |-> rawAnswer]
    /\ Respond(FinalResponse(normalizedQuery, scope, rawAnswer, RagChunks(orderedChunks),
                             debug, nodeEnv, topK, finalFilters))

\* how many Map calls have settled; a settled call records its rank in seq
SettledCount(tasks) == Cardinality({d \in DOMAIN tasks : tasks[d].status # "pending"})

\* variant: the results are collected in the order the calls completed
Joined_CompletionOrder(tasks, ragChunks) ==
    LET ids    == DOMAIN tasks
        byDone == [k \in 1..Cardinality(ids) |->
                      CHOOSE d \in ids :
                          Cardinality({e \in ids : tasks[e].seq < tasks[d].seq}) = k - 1]
    IN  [k \in 1..Cardinality(ids) |->
            PerDocAnswer(byDone[k], ChunksOfDoc(ragChunks, byDone[k]), tasks[byDone[k]].answer)]

\* variant: "not found" answers are filtered out before the REDUCE phase
Joined_DropNotFound(tasks, ragChunks) ==
    LET ids == GroupKeys(ragChunks, {})
    IN  SelectSeq([k \in 1..Len(ids) |->
                      PerDocAnswer(ids[k], ChunksOfDoc(ragChunks, ids[k]), tasks[ids[k]].answer)],
                  LAMBDA item : ~isAnswerNotFound(item.answer))

\* Promise.all: the results in the order of the promises, once none is pending
Joined(tasks, ragChunks) ==
    LET ids == GroupKeys(ragChunks, {})
    IN  [k \in 1..Len(ids) |->
            PerDocAnswer(ids[k], ChunksOfDoc(ragChunks, ids[k]), tasks[ids[k]].answer)]

\* variant: Promise.race, the first fulfilment resolves
AllFulfilled_Some(tasks) == \E d \in DOMAIN tasks : tasks[d].status = "fulfilled"

AllFulfilled(tasks) == \A d \in DOMAIN tasks : tasks[d].status = "fulfilled"

\* variant: only the real answers are merged
MergeInput_RealOnly(joined) == RealAnswers(joined)

\* the perDocAnswers argument of mergeLLMAnswers, from which its context is built
MergeInput(joined) == joined

\* the Map call of document d returned docAnswer while the handler awaits
\* Promise.all; the last fulfilment resolves it and the REDUCE phase runs
MapFulfilled(d, docAnswer) ==
    LET tasks  == [mapTasks EXCEPT ![d] = [status |-> "fulfilled", answer |-> docAnswer,
                                           seq |-> SettledCount(mapTasks) + 1]]
        joined == Joined(tasks, RagChunks(orderedChunks))
        red    == Reduce(joined)
    IN  /\ mapTasks' = tasks
        /\ IF ~AllFulfilled(tasks)
           THEN UNCHANGED <<pc, response, answer, perDocAnswers, reduced, mergeCalls>>
           ELSE /\ perDocAnswers' = joined
                /\ reduced' = red
                /\ IF red.kind # "merge"
                   THEN Finalize(red.answer) /\ UNCHANGED mergeCalls
                   \* mergeLLMAnswers: no completion call for fewer than two entries
                   ELSE IF Len(MergeInput(joined)) = 0
                   THEN Finalize(CanonicalFallback) /\ UNCHANGED mergeCalls
                   ELSE IF Len(MergeInput(joined)) = 1
                   THEN Finalize(MergeInput(joined)[1].answer) /\ UNCHANGED mergeCalls
                   ELSE /\ pc' = "awaitMerge"
                        /\ mergeCalls' = Append(mergeCalls,
                               [question |-> normalizedQuery,
                                perDocAnswers |-> MergeInput(joined)])
                        /\ UNCHANGED <<response, answer>>

\* variant: a failed Map call counts as a "not found" answer
MapRejected_AsNotFound(d) == MapFulfilled(d, CanonicalFallback)

\* the Map call of document d threw: Promise.all rejects at once and the
\* catch block of the handler answers
MapRejected(d) ==
    /\ mapTasks' = [mapTasks EXCEPT ![d] = [status |-> "rejected", answer |-> <<>>,
                                          seq |-> SettledCount(mapTasks) + 1]]
    /\ Fail500
    /\ UNCHANGED <<answer, perDocAnswers, reduced, mergeCalls>>

\* the Map call of document d settled
MapSettled(d, ok, content) ==
    /\ pc = "awaitMap"
    /\ d \in DOMAIN mapTasks
    /\ mapTasks[d].status = "pending"
    /\ IF ok THEN MapFulfilled(d, AnswerOfContent(content)) ELSE MapRejected(d)
    /\ mapFailures' = IF ok THEN mapFailures ELSE mapFailures \cup {d}
    /\ UNCHANGED <<envVars, reqVars, retrVars, metadataCalls, embedCalls, searchCalls, llmCalls>>
    /\ UNCHANGED uploadVars

\* the completion call of mergeLLMAnswers settled
MergeSettled(ok, content) ==
    /\ pc = "awaitMerge"
    /\ IF ok THEN Finalize(AnswerOfContent(content)) ELSE Fail500 /\ UNCHANGED answer
    /\ UNCHANGED <<envVars, reqVars, retrVars, synthVars, callVars>>
    /\ UNCHANGED <<mapFailures, uploadVars>>

\* the single-pass generateLLMAnswer call settled
SingleSettled(ok, content) ==
    /\ pc = "awaitSingle"
    /\ IF ok THEN Finalize(AnswerOfContent(content)) ELSE Fail500 /\ UNCHANGED answer
    /\ UNCHANGED <<envVars, reqVars, retrVars, synthVars, callVars>>
    /\ UNCHANGED <<mapFailures, uploadVars>>

\* a Map call that was still in flight when the request failed settles; nothing reads it
LateMapSettled(d, ok) ==
    /\ pc = "responded"
    /\ d \in DOMAIN mapTasks
    /\ mapTasks[d].status = "pending"
    /\ mapTasks' = [mapTasks EXCEPT ![d] = [status |-> IF ok THEN "fulfilled" ELSE "rejected",
                                            answer |-> <<>>,
                                            seq |-> SettledCount(mapTasks) + 1]]
    /\ mapFailures' = IF ok THEN mapFailures ELSE mapFailures \cup {d}
    /\ UNCHANGED <<envVars, pc, reqVars, retrVars, perDocAnswers, reduced, response, callVars>>
    /\ UNCHANGED <<answer, uploadVars>>

\* the handler has returned; the next request starts from fresh locals
NextRequest ==
    /\ pc = "responded"
    /\ pc' = "idle"
    /\ body' = NoBody
    /\ scope' = "all_files" /\ topK' = DEFAULT_TOP_K /\ debug' = FALSE
    /\ normalizedQuery' = <<>> /\ intent' = Unclassified /\ finalFilters' = NoFilters
    /\ score' = NoScore /\ docQueue' = <<>> /\ allChunks' = <<>>
    /\ searchResults' = NoResults /\ orderedChunks' = <<>>
    /\ mapTasks' = NoTasks /\ perDocAnswers' = <<>> /\ reduced' = NoReduce
    /\ response' = NoResponse
    /\ mapFailures' = {}
    /\ answer' = NoAnswer
    /\ metadataCalls' = 0 /\ embedCalls' = 0 /\ searchCalls' = <<>>
    /\ llmCalls' = <<>> /\ mergeCalls' = <<>>
    /\ UNCHANGED <<envVars, uploadVars>>

Next ==
    \/ \E b \in Bodies : Receive(b)
    \/ \E ok \in BOOLEAN : MetadataListed(ok)
    \/ \E ok \in BOOLEAN, sc \in [corpus -> ScoreVals] : EmbeddingDone(ok, sc)
    \/ \E ok \in BOOLEAN : EnumerateDone(ok)
    \/ \E ok \in BOOLEAN : DocSearchDone(ok)
    \/ \E ok \in BOOLEAN : ScopedSearchDone(ok)
    \/ \E d \in DOMAIN mapTasks, ok \in BOOLEAN, content \in LLMContents : MapSettled(d, ok, content)
    \/ \E ok \in BOOLEAN, content \in LLMContents : MergeSettled(ok, content)
    \/ \E ok \in BOOLEAN, content \in LLMContents : SingleSettled(ok, content)
    \/ \E d \in DOMAIN mapTasks, ok \in BOOLEAN : LateMapSettled(d, ok)
    \/ NextRequest

Spec == Init /\ [][Next]_vars

(***************************************************************************)
(* POST /api/upload                                                        *)
(***************************************************************************)

\* res.status(st).json(...) of the request r, which ends its handler
UploadRespond(r, st, msg, docId) ==
    [uploads[r] EXCEPT !.pc = "done", !.status = st, !.message = msg, !.doc_id = docId]

\* the request r arrives with the file of digest f, or with no file
UploadReceive(r, f) ==
    /\ uploads[r].pc = "new"
    /\ r > 1 => uploads[r - 1].pc # "new"
    /\ uploads' = [uploads EXCEPT ![r] =
           IF f = NoFile
           THEN UploadRespond(r, 400, "No file uploaded", 0)
           ELSE [@ EXCEPT !.pc = "awaitCollection", !.fileHash = f]]
    /\ UNCHANGED <<inProgressUploads, storedHashes, envVars, queryVars>>

\* the collection after ensureCollectionExists returned
ensureCollectionExists(coll) == IF coll = "absent" THEN "created" ELSE coll

\* ensureCollectionExists settled; on success the handler runs up to the scroll
CollectionEnsured(r, ok) ==
    /\ uploads[r].pc = "awaitCollection"
    /\ collection' = IF ok THEN ensureCollectionExists(collection) ELSE collection
    /\ uploads' = [uploads EXCEPT ![r] =
           IF ~ok
           THEN UploadRespond(r, 500, "Upload failed", 0)
           ELSE IF uploads[r].fileHash \in DOMAIN inProgressUploads
           THEN UploadRespond(r, 409, "File already uploaded (ingestion in progress)",
                              inProgressUploads[uploads[r].fileHash])
           ELSE [@ EXCEPT !.pc = "awaitScroll"]]
    /\ UNCHANGED <<inProgressUploads, storedHashes, corpus, nodeEnv, queryVars>>

\* the scroll for the file hash settled: a stored point is a duplicate, and
\* otherwise the upload is tracked under a fresh doc_id and python is spawned
DedupScrollDone(r, ok) ==
    LET hash == uploads[r].fileHash
        hits == {p \in storedHashes : p[1] = hash}
    IN  /\ uploads[r].pc = "awaitScroll"
        /\ ok => collection # "absent"
        /\ IF ~ok
           THEN /\ uploads' = [uploads EXCEPT ![r] = UploadRespond(r, 500, "Upload failed", 0)]
                /\ UNCHANGED inProgressUploads
           ELSE IF hits # {}
           THEN /\ \E p \in hits :
                      uploads' = [uploads EXCEPT ![r] =
                                     UploadRespond(r, 409, "File already uploaded", p[2])]
                /\ UNCHANGED inProgressUploads
           ELSE /\ inProgressUploads' = [h \in DOMAIN inProgressUploads \cup {hash} |->
                                          IF h = hash THEN r ELSE inProgressUploads[h]]
                /\ uploads' = [uploads EXCEPT ![r] =
                       [UploadRespond(r, 200, "File uploaded successfully", r)
                            EXCEPT !.python = "running"]]
        /\ UNCHANGED <<storedHashes, envVars, queryVars>>

\* variant: only a successful ingestion releases the file hash
IngestionExit_DeleteOnSuccess(r, code) ==
    /\ uploads[r].python = "running"
    /\ uploads' = [uploads EXCEPT ![r].python = "exited"]
    /\ inProgressUploads' = IF code = 0
                            THEN [h \in DOMAIN inProgressUploads \ {uploads[r].fileHash} |-> inProgressUploads[h]]
                            ELSE inProgressUploads
    /\ storedHashes' = IF code = 0
                       THEN storedHashes \cup {<<uploads[r].fileHash, r>>}
                       ELSE storedHashes
    /\ UNCHANGED <<envVars, queryVars>>

\* python.on("exit"): the entry is deleted whatever the exit code; with code 0
\* the points of the file, which carry file_hash and doc_id, are in the collection
IngestionExit(r, code) ==
    /\ uploads[r].python = "running"
    /\ uploads' = [uploads EXCEPT ![r].python = "exited"]
    /\ inProgressUploads' = [h \in DOMAIN inProgressUploads \ {uploads[r].fileHash} |-> inProgressUploads[h]]
    /\ storedHashes' = IF code = 0
                       THEN storedHashes \cup {<<uploads[r].fileHash, r>>}
                       ELSE storedHashes
    /\ UNCHANGED <<envVars, queryVars>>

\* python.on("error"): the process of the request r could not be spawned
IngestionError(r) ==
    /\ uploads[r].python = "running"
    /\ uploads' = [uploads EXCEPT ![r].python = "failed"]
    /\ inProgressUploads' = [h \in DOMAIN inProgressUploads \ {uploads[r].fileHash} |-> inProgressUploads[h]]
    /\ UNCHANGED <<storedHashes, envVars, queryVars>>

UploadInit ==
    /\ corpus = {}
    /\ collection \in {"present", "absent"}
    /\ nodeEnv = "development"
    /\ Idle
    /\ NoUploads

UploadNext ==
    \/ \E r \in 1..MaxUploads, f \in FileHashes \cup {NoFile} : UploadReceive(r, f)
    \/ \E r \in 1..MaxUploads, ok \in BOOLEAN : CollectionEnsured(r, ok)
    \/ \E r \in 1..MaxUploads, ok \in BOOLEAN : DedupScrollDone(r, ok)
    \/ \E r \in 1..MaxUploads, code \in {0, 1} : IngestionExit(r, code)
    \/ \E r \in 1..MaxUploads : IngestionError(r)

UploadSpec == UploadInit /\ [][UploadNext]_vars

\* a spawned child process emits "exit" or "error"
UploadFairSpec ==
    UploadSpec /\ \A r \in 1..MaxUploads :
                      WF_vars((\E code \in {0, 1} : IngestionExit(r, code)) \/ IngestionError(r))

(***************************************************************************)
(* Properties                                                              *)
(***************************************************************************)

\* an answer the "not found" classifier does not match
IsReal(a) == a # <<>> /\ ~isAnswerNotFound(a)

NumReal(answers) == Cardinality({k \in 1..Len(answers) : IsReal(answers[k].answer)})

DocIdsOf(items) == {items[k].doc_id : k \in 1..Len(items)}

AnyCallIssued ==
    embedCalls > 0 \/ searchCalls # <<>> \/ llmCalls # <<>> \/ mergeCalls # <<>>

\* C1: a request whose normalized query is classified as metadata never
\* issues an embedding call, a vector search or a language-model call; the
\* only collaborator called is the metadata listing, called once, and the
\* response built from the listing carries intent "metadata" (a listing
\* that throws is answered by the 500 of the metadata branch).
C1_MetadataBypassesPipeline ==
    intent = "metadata" =>
        /\ ~AnyCallIssued
        /\ metadataCalls = 1
        /\ pc \in {"awaitMetadata", "responded"}
        /\ pc = "responded" =>
              \/ response.kind = "metadata" /\ response.intent = "metadata"
              \/ response = ErrorResponse(500, "Failed to retrieve document metadata")

C1_Witness ==
    /\ pc = "responded"
    /\ intent = "metadata"
    /\ response.kind = "metadata"
    /\ response.count = 2

\* C2: with scope current_file and a document id, every vectorSearch call
\* carries that document id as its doc_id filter, every chunk given to the
\* language model belongs to that document, and every entry of the
\* response's sources names it.
C2_CurrentFileStaysInDocument ==
    scope = "current_file" =>
        /\ \A k \in 1..Len(searchCalls) : searchCalls[k].filters.doc_id = body.doc_id
        /\ \A k \in 1..Len(llmCalls) : DocIdsOf(llmCalls[k].chunks) \subseteq {body.doc_id}
        /\ response.kind = "answer" => DocIdsOf(response.sources) \subseteq {body.doc_id}

C2_Witness ==
    /\ pc = "responded"
    /\ scope = "current_file"
    /\ body.doc_id = DocA
    /\ "b0" \in corpus
    /\ response.kind = "answer"
    /\ DocIdsOf(response.sources) = {DocA}

\* C3: when the REDUCE phase has run, the document ids of the per-document
\* answers it received are exactly the document ids of the ranked chunks,
\* one entry per document, "not found" answers included.
C3_ReduceInputCoversRankedDocs ==
    reduced # NoReduce =>
        /\ DocIdsOf(perDocAnswers) = DocIdsOf(RagChunks(orderedChunks))
        /\ Len(perDocAnswers) = Cardinality(DocIdsOf(RagChunks(orderedChunks)))

C3_Witness ==
    /\ reduced # NoReduce
    /\ Len(perDocAnswers) = 3
    /\ \E k \in 1..Len(perDocAnswers) : isAnswerNotFound(perDocAnswers[k].answer)
    /\ \E k \in 1..Len(perDocAnswers) : IsReal(perDocAnswers[k].answer)

\* C4: the REDUCE phase (its decision, and any merge call) has not begun
\* while a Map call of the query is pending.
C4_ReduceAfterAllMapsSettled ==
    (reduced # NoReduce \/ mergeCalls # <<>>) =>
        \A d \in DOMAIN mapTasks : mapTasks[d].status = "fulfilled"

C4_Witness ==
    /\ reduced # NoReduce
    /\ Cardinality(DOMAIN mapTasks) = 3

\* C5: once a Map call has failed, the request is answered with the 500
\* error, no REDUCE decision is taken, no merge call is issued, and every
\* document has had exactly one Map call (none is retried).
C5_MapFailureFailsRequest ==
    mapFailures # {} =>
        /\ pc = "responded"
        /\ response = ErrorResponse(500, "Failed to process query")
        /\ reduced = NoReduce
        /\ mergeCalls = <<>>
        /\ Len(llmCalls) = Cardinality(DOMAIN mapTasks)
        /\ \A d \in DOMAIN mapTasks :
              Cardinality({k \in 1..Len(llmCalls) : llmCalls[k].doc_id = d}) = 1

C5_Witness ==
    /\ mapFailures # {}
    /\ \E d \in DOMAIN mapTasks : mapTasks[d].status = "fulfilled"
    /\ response.status = 500

\* C6: when retrieval has returned and no result has a numeric score at or
\* above the minimum, the response is the 200 with the canonical fallback
\* answer and no sources, and no language-model call was made.
C6_NothingAboveThresholdFallsBack ==
    (/\ searchResults.assigned
     /\ \A k \in 1..Len(searchResults.items) :
           ~(searchResults.items[k].scored
             /\ searchResults.items[k].score >= MIN_RETRIEVAL_SCORE)) =>
        /\ pc = "responded"
        /\ response.status = 200
        /\ response.kind = "answer"
        /\ response.answer = CanonicalFallback
        /\ response.sources = <<>>
        /\ llmCalls = <<>>
        /\ mergeCalls = <<>>

C6_Witness ==
    /\ pc = "responded"
    /\ searchResults.assigned
    /\ Len(searchResults.items) > 1
    /\ \A k \in 1..Len(searchResults.items) :
          searchResults.items[k].score < MIN_RETRIEVAL_SCORE
    /\ response.kind = "answer"

\* C7: with several per-document answers of which exactly one is not matched
\* by the "not found" classifier, the REDUCE result is that answer's text and
\* no merge call is issued.
C7_SingleRealAnswerReturnedDirectly ==
    (reduced # NoReduce /\ Len(perDocAnswers) > 1 /\ NumReal(perDocAnswers) = 1) =>
        /\ reduced.kind = "direct"
        /\ \E k \in 1..Len(perDocAnswers) :
              IsReal(perDocAnswers[k].answer) /\ reduced.answer = perDocAnswers[k].answer
        /\ mergeCalls = <<>>

C7_Witness ==
    /\ reduced.kind = "direct"
    /\ Len(perDocAnswers) = 3
    /\ NumReal(perDocAnswers) = 1
    /\ ~IsReal(perDocAnswers[1].answer)

\* C8: when every per-document answer is empty or matched by the "not found"
\* classifier (whatever its letter case), the REDUCE result is the canonical
\* fallback string and no merge call is issued.
C8_AllNotFoundGivesFallback ==
    (reduced # NoReduce /\ NumReal(perDocAnswers) = 0) =>
        /\ reduced = [kind |-> "fallback", answer |-> CanonicalFallback]
        /\ mergeCalls = <<>>

C8_Witness ==
    /\ reduced.kind = "fallback"
    /\ Len(perDocAnswers) > 1
    /\ \E k \in 1..Len(perDocAnswers) : perDocAnswers[k].answer = ContentIdk
    /\ \E k \in 1..Len(perDocAnswers) : perDocAnswers[k].answer = CanonicalFallback

\* C9: the merge model is invoked at most once per request, exactly when two
\* or more per-document answers are real, and its input is the whole list of
\* per-document answers of the Map phase, the "not found" ones included.
C9_MergeOnceWithAllAnswers ==
    /\ Len(mergeCalls) <= 1
    /\ (mergeCalls # <<>>) = (reduced # NoReduce /\ NumReal(perDocAnswers) >= 2)
    /\ mergeCalls # <<>> =>
          /\ mergeCalls[1].perDocAnswers = perDocAnswers
          /\ \A d \in DOMAIN mapTasks :
                \E k \in 1..Len(mergeCalls[1].perDocAnswers) :
                    /\ mergeCalls[1].perDocAnswers[k].doc_id = d
                    /\ mergeCalls[1].perDocAnswers[k].answer = mapTasks[d].answer

C9_Witness ==
    /\ Len(mergeCalls) = 1
    /\ NumReal(perDocAnswers) = 2
    /\ \E k \in 1..Len(mergeCalls[1].perDocAnswers) :
          isAnswerNotFound(mergeCalls[1].perDocAnswers[k].answer)

\* C10: a request whose scope is neither current_file nor all_files, or whose
\* scope is current_file without a non-empty string doc_id, is answered with
\* a 400 whatever its query text is and reaches neither the metadata branch
\* nor the content branch.
C10_ValidationBeforeIntent ==
    (/\ pc # "idle"
     /\ \/ scope \notin {"current_file", "all_files"}
        \/ scope = "current_file" /\ DocIdMissing(body.doc_id)) =>
        /\ pc = "responded"
        /\ response.status = 400
        /\ metadataCalls = 0
        /\ embedCalls = 0

\* C11: a request whose query is not a string, or is empty once normalized,
\* is answered with a 400 and no collaborator is called: the intent is never
\* classified, and no metadata listing, embedding, vector search or
\* language-model call is issued.
C11_BadQueryRejectedBeforeAnyCall ==
    (pc # "idle" /\ (body.query = NotAString \/ normalizeQuery(body.query) = <<>>)) =>
        /\ pc = "responded"
        /\ response.kind = "error"
        /\ response.status = 400
        /\ intent = Unclassified
        /\ metadataCalls = 0
        /\ ~AnyCallIssued

C11_Witness ==
    /\ pc = "responded"
    /\ body.query = q_blank
    /\ body.scope = "bogus"
    /\ response = ErrorResponse(400, "Query text cannot be empty")

\* the document id of a retrieved point
DocOfPoint(r) == Payload[r.id].doc_id

\* the document ids that have a point in the collection
StoredDocs == {Payload[id].doc_id : id \in corpus} \ {Absent}

\* C12: before the first embedding or retrieval call the requested topK has
\* been clamped into [1, MAX_CONTEXT_CHUNKS] (a value that is not a number
\* counts as the default), and neither the ranked chunk set nor the chunks of
\* any language-model call are more than the clamped value.
C12_TopKClampedBeforeRetrieval ==
    (embedCalls > 0 \/ searchCalls # <<>>) =>
        /\ topK \in 1..MAX_CONTEXT_CHUNKS
        /\ body.topK.kind # "number" => topK = DEFAULT_TOP_K
        /\ (body.topK.kind = "number" /\ body.topK.val > MAX_CONTEXT_CHUNKS) =>
              topK = MAX_CONTEXT_CHUNKS
        /\ (body.topK.kind = "number" /\ body.topK.val < 1) => topK = 1
        /\ (body.topK.kind = "number" /\ body.topK.val \in 1..MAX_CONTEXT_CHUNKS) =>
              topK = body.topK.val
        /\ Len(orderedChunks) <= topK
        /\ \A k \in 1..Len(llmCalls) : Len(llmCalls[k].chunks) <= topK

C12_Witness ==
    /\ body.topK = TopKNumber(0)
    /\ topK = 1
    /\ Len(SafeResults(searchResults.items)) > 1
    /\ Len(llmCalls) = 1
    /\ Len(llmCalls[1].chunks) = 1

\* C13: in all_files mode every document whose own search returned a
\* similarity hit has at least one chunk in the pre-ranking result set (the
\* per-document results sorted by score and cut to 2 x topK).
C13_EveryDocumentInPreRanking ==
    (scope = "all_files" /\ searchResults.assigned) =>
        \A j \in 1..Len(allChunks) :
            allChunks[j].scored =>
                \E k \in 1..Len(searchResults.items) :
                    DocOfPoint(searchResults.items[k]) = DocOfPoint(allChunks[j])

\* C14: in all_files mode every document with a chunk at or above the minimum
\* score in the pre-ranking result set has a chunk in the ranked chunk set,
\* and its own Map call when several such documents exist.
C14_EveryDocumentInRankedSet ==
    (scope = "all_files" /\ searchResults.assigned) =>
        LET safeDocs == {DocOfPoint(searchResults.items[k]) :
                            k \in {i \in 1..Len(searchResults.items) :
                                      /\ searchResults.items[i].scored
                                      /\ searchResults.items[i].score >= MIN_RETRIEVAL_SCORE}}
        IN  /\ \A d \in safeDocs : \E k \in 1..Len(orderedChunks) : DocOfPoint(orderedChunks[k]) = d
            /\ Cardinality(safeDocs) > 1 => safeDocs \subseteq DOMAIN mapTasks

\* C15: with scope current_file, when the target document has a lead chunk
\* (chunk_index 0) in the store, that chunk is among the chunks given to the
\* language model.
C15_LeadChunkReachesModel ==
    (scope = "current_file" /\ llmCalls # <<>>) =>
        \A id \in corpus :
            (Payload[id].doc_id = body.doc_id /\ Payload[id].chunk_index = 0) =>
                \E k \in 1..Len(llmCalls[1].chunks) :
                    /\ llmCalls[1].chunks[k].doc_id = body.doc_id
                    /\ llmCalls[1].chunks[k].text = Payload[id].text

\* C16: the document filter of retrieval comes from scope and doc_id, not from
\* the caller's filters: with current_file every search is filtered on the
\* request's doc_id; with all_files the enumeration has no document filter
\* and the documents searched one by one are all the documents of the store.
C16_ScopeDecidesDocumentFilter ==
    /\ (scope = "current_file" /\ embedCalls > 0) =>
          /\ finalFilters.doc_id = body.doc_id
          /\ \A k \in 1..Len(searchCalls) : searchCalls[k].filters.doc_id = body.doc_id
    /\ (scope = "all_files" /\ searchCalls # <<>>) =>
          /\ searchCalls[1].filters.doc_id = Absent
          /\ finalFilters.doc_id = Absent
          /\ searchResults.assigned =>
                {searchCalls[k].filters.doc_id : k \in 2..Len(searchCalls)} = StoredDocs

C16_Witness ==
    /\ scope = "all_files"
    /\ body.filters.doc_id = DocB
    /\ searchResults.assigned
    /\ \E k \in 1..Len(searchCalls) : searchCalls[k].filters.doc_id = DocA
    /\ \E k \in 1..Len(searchResults.items) : DocOfPoint(searchResults.items[k]) = DocA

\* C17: the per-document answers given to the REDUCE phase are in the order
\* of the documents in the ranked chunk set, each document with the answer
\* its own Map call returned, whatever the order the calls completed in.
C17_MapResultIndependentOfCompletionOrder ==
    reduced # NoReduce =>
        LET ids == GroupKeys(RagChunks(orderedChunks), {})
        IN  /\ Len(perDocAnswers) = Len(ids)
            /\ \A k \in 1..Len(ids) :
                  /\ perDocAnswers[k].doc_id = ids[k]
                  /\ perDocAnswers[k].answer = mapTasks[ids[k]].answer

C17_Witness ==
    /\ reduced # NoReduce
    /\ Len(perDocAnswers) = 3
    /\ mapTasks[perDocAnswers[1].doc_id].seq = 3
    /\ mapTasks[perDocAnswers[3].doc_id].seq = 1
    /\ perDocAnswers[1].answer # perDocAnswers[3].answer

\* C18: the Map phase issues exactly one language-model call per document id
\* of the ranked chunk set, and the call of a document is given exactly the
\* ranked chunks of that document, in their order.
C18_OneMapCallPerDocument ==
    mapTasks # NoTasks =>
        LET rc   == RagChunks(orderedChunks)
            docs == DocIdsOf(rc)
        IN  /\ Len(llmCalls) = Cardinality(docs)
            /\ \A k \in 1..Len(llmCalls) : llmCalls[k].kind = "map"
            /\ \A d \in docs :
                  \E k \in 1..Len(llmCalls) :
                      /\ llmCalls[k].doc_id = d
                      /\ llmCalls[k].chunks = SelectSeq(rc, LAMBDA c : c.doc_id = d)

C18_Witness ==
    /\ pc = "awaitMap"
    /\ Len(llmCalls) = 2
    /\ \E k \in 1..2 : Len(llmCalls[k].chunks) = 2

\* C19: the metadata response is a success that lists every document with a
\* lead chunk exactly once, and count is the number of those documents (0 and
\* an empty list for an empty corpus).
C19_MetadataListsEachDocumentOnce ==
    response.kind = "metadata" =>
        LET leads == {Payload[id].doc_id : id \in {i \in corpus : Payload[i].chunk_index = 0}}
                     \ {Absent}
        IN  /\ response.status = 200
            /\ DocIdsOf(response.documents) = leads
            /\ Len(response.documents) = Cardinality(leads)
            /\ response.count = Cardinality(leads)

C19_Witness ==
    /\ response.kind = "metadata"
    /\ response.count = 3
    /\ DocIdsOf(response.documents) = {DocA, DocB, DocC}

\* C20: when the collection is absent as a content query reaches retrieval,
\* the retrieval step ends the request with a 500, the collection is left as
\* it was, no results are obtained and no language-model call is made.
C20_AbsentCollectionFailsRequest ==
    [][(collection = "absent" /\ pc \in {"awaitEnumerate", "awaitScopedSearch"}) =>
          /\ pc' = "responded"
          /\ response'.status = 500
          /\ collection' = "absent"
          /\ ~searchResults'.assigned
          /\ llmCalls' = <<>>]_vars


(***************************************************************************)
(* Ranking, answer post-processing and the debug payload                   *)
(***************************************************************************)

StartsWith(s, prefix) == Len(s) >= Len(prefix) /\ SubSeq(s, 1, Len(prefix)) = prefix

EndsWith(s, suffix) ==
    Len(s) >= Len(suffix) /\ SubSeq(s, Len(s) - Len(suffix) + 1, Len(s)) = suffix

\* the text the name extraction reads
CandidateText ==
    LET firstTwo == Take(RagChunks(orderedChunks), 2)
    IN  Join([k \in 1..Len(firstTwo) |-> firstTwo[k].text], <<"\n">>)

\* the ranked chunks come from more than one document of an all_files query
MultiDocument ==
    /\ scope = "all_files"
    /\ Cardinality({DocOfPoint(orderedChunks[k]) : k \in 1..Len(orderedChunks)}) > 1

\* the point x sorts strictly before the point y by (doc_id, chunk_index)
SortsBefore(x, y) ==
    \/ DocBefore(DocOfPoint(x), DocOfPoint(y))
    \/ DocOfPoint(x) = DocOfPoint(y)
       /\ Payload[x.id].chunk_index < Payload[y.id].chunk_index

\* C22: a response carries a debug payload only if the request asked for it
\* and the process does not run in production; in production no response has
\* one, and the responses that are not answers never have one.
C22_DebugOnlyWhenAskedOutsideProduction ==
    /\ response.kind # "answer" => "debug" \notin DOMAIN response
    /\ response.kind = "answer" =>
          /\ response.debug.present => (body.debug /\ nodeEnv # "production")
          /\ nodeEnv = "production" => response.debug = NoDebug

C22_Witness ==
    /\ pc = "responded"
    /\ nodeEnv = "development"
    /\ body.debug
    /\ response.kind = "answer"
    /\ response.debug.present
    /\ Len(response.debug.chunks) = 2

\* C23: in the ranked chunk set the chunks of one document are contiguous, the
\* groups follow the order of the document ids, the chunks of a document are
\* in ascending position, and the set is the first topK of the ordered
\* results: a result that was cut does not sort before one that was kept.
C23_RankedSetGroupedAndOrdered ==
    LET n    == Len(orderedChunks)
        safe == SafeResults(searchResults.items)
        kept == {orderedChunks[k].id : k \in 1..n}
    IN  /\ \A i, j \in 1..n : i < j => SortsBefore(orderedChunks[i], orderedChunks[j])
        /\ \A i, j, k \in 1..n :
              (i < j /\ j < k /\ DocOfPoint(orderedChunks[i]) = DocOfPoint(orderedChunks[k]))
                  => DocOfPoint(orderedChunks[j]) = DocOfPoint(orderedChunks[i])
        /\ n > 0 =>
              /\ n = Min(topK, Len(safe))
              /\ \A c \in 1..Len(safe) :
                    safe[c].id \notin kept =>
                        \A k \in 1..n : ~SortsBefore(safe[c], orderedChunks[k])

C23_Witness ==
    /\ Len(orderedChunks) = 2
    /\ Len(SafeResults(searchResults.items)) = 3
    /\ DocOfPoint(orderedChunks[1]) # DocOfPoint(orderedChunks[2])
    /\ orderedChunks # Take(SafeResults(searchResults.items), 2)

\* C24: every chunk of the ranked chunk set, and so every chunk given to the
\* language model in a Map call or in the single-pass call, has a numeric
\* score at or above the minimum; a retrieved point with a lower score or
\* without a score is not in the ranked chunk set.
C24_OnlyScoredChunksReachTheModel ==
    /\ \A k \in 1..Len(orderedChunks) :
          orderedChunks[k].scored /\ orderedChunks[k].score >= MIN_RETRIEVAL_SCORE
    /\ \A c \in 1..Len(llmCalls) :
          \A i \in 1..Len(llmCalls[c].chunks) :
              /\ llmCalls[c].chunks[i].score >= MIN_RETRIEVAL_SCORE
              /\ \E k \in 1..Len(orderedChunks) :
                    /\ orderedChunks[k].scored
                    /\ RagChunks(orderedChunks)[k] = llmCalls[c].chunks[i]
    /\ \A r \in 1..Len(searchResults.items) :
          (~searchResults.items[r].scored
           \/ searchResults.items[r].score < MIN_RETRIEVAL_SCORE) =>
              \A k \in 1..Len(orderedChunks) :
                  orderedChunks[k].id # searchResults.items[r].id

C24_Witness ==
    /\ llmCalls # <<>>
    /\ Len(searchResults.items) = 3
    /\ \E r \in 1..Len(searchResults.items) :
          ~searchResults.items[r].scored
          \/ searchResults.items[r].score < MIN_RETRIEVAL_SCORE
    /\ Len(orderedChunks) = 1
    /\ orderedChunks[1].score = MIN_RETRIEVAL_SCORE

NoDuplicateId(items) ==
    \A i, j \in 1..Len(items) : i # j => items[i].id # items[j].id

\* C25: no result of the Retriever holds a point id twice; a point that is
\* both a similarity hit and a lead chunk is kept as the similarity hit, with
\* its score; the concatenated per-document results of an all_files query
\* hold no point id twice either.
C25_RetrieverResultsHaveNoDuplicate ==
    /\ NoDuplicateId(searchResults.items)
    /\ NoDuplicateId(allChunks)
    /\ (scope = "current_file" /\ searchResults.assigned) =>
          LET hits == QdrantSearch(corpus, score, MustConditions(finalFilters), topK)
          IN  \A h \in 1..Len(hits) : searchResults.items[h] = hits[h]
    /\ \A k \in 1..Len(allChunks) :
          ~allChunks[k].scored =>
              \E c \in 1..Len(searchCalls) :
                  /\ searchCalls[c].filters.doc_id = DocOfPoint(allChunks[k])
                  /\ \A h \in 1..Len(QdrantSearch(corpus, score,
                                                  MustConditions(searchCalls[c].filters),
                                                  searchCalls[c].topK)) :
                        QdrantSearch(corpus, score, MustConditions(searchCalls[c].filters),
                                     searchCalls[c].topK)[h].id # allChunks[k].id

C25_Witness ==
    /\ scope = "current_file"
    /\ searchResults.assigned
    /\ Len(searchResults.items) = 2
    /\ \E k \in 1..Len(searchResults.items) :
          /\ Payload[searchResults.items[k].id].chunk_index = 0
          /\ searchResults.items[k].scored

\* C26: the name extraction replaces the answer only when the "not found"
\* classifier matches it, and then by a name found in the text of the first
\* two ranked chunks; any other answer is returned as it is, preceded at most
\* by the source prefix.
C26_NameFallbackOnlyOnNotFound ==
    (pc = "responded" /\ answer.assigned /\ response.kind = "answer") =>
        /\ ~isAnswerNotFound(answer.text) =>
              \/ response.answer = answer.text
              \/ /\ StartsWith(response.answer, AnsweringFrom)
                 /\ EndsWith(response.answer, <<"\n", "\n">> \o answer.text)
        /\ ~EndsWith(response.answer, answer.text) =>
              /\ isAnswerNotFound(answer.text)
              /\ \E i, j \in 1..Len(CandidateText) :
                    EndsWith(response.answer,
                             NameSentence \o trim(SubSeq(CandidateText, i, j)) \o <<".">>)

C26_Witness ==
    /\ pc = "responded"
    /\ answer.assigned
    /\ ~isAnswerNotFound(answer.text)
    /\ RegexMatch(NamePattern, CandidateText) # <<>>
    /\ response.kind = "answer"
    /\ EndsWith(response.answer, answer.text)

C28_DenylistNeverSuppressesOverride ==
    (pc = "responded" /\ answer.assigned /\ isAnswerNotFound(answer.text)) =>
        LET nameMatch == RegexMatch(NamePattern, CandidateText)
        IN  nameMatch # <<>> =>
                /\ \E i \in 2..(Len(nameMatch) - 1) : nameMatch[i] \in WhiteChars
                /\ \A k \in 1..Len(INVALID_NAME_PATTERNS) : INVALID_NAME_PATTERNS[k] # nameMatch
                /\ response.kind = "answer"
                /\ EndsWith(response.answer, NameSentence \o trim(nameMatch) \o <<".">>)

C28_Witness ==
    /\ pc = "responded"
    /\ answer.assigned
    /\ isAnswerNotFound(answer.text)
    /\ RegexMatch(NamePattern, CandidateText) = Payload["a1"].text
    /\ INVALID_NAME_PATTERNS[1] = Take(Payload["a1"].text, 3)
    /\ response.kind = "answer"
    /\ EndsWith(response.answer, NameSentence \o Payload["a1"].text \o <<".">>)

IngestionsInFlight(h) ==
    {r \in 1..MaxUploads : uploads[r].python = "running" /\ uploads[r].fileHash = h}

\* C21: whatever the interleaving of concurrent uploads of one file hash, at
\* most one ingestion process for that hash is running at a time, and a request
\* is answered "uploaded" only while no other upload of that hash is in progress
C21_OneIngestionPerHash ==
    \A h \in FileHashes :
        /\ Cardinality(IngestionsInFlight(h)) <= 1
        /\ \A r \in IngestionsInFlight(h) :
              h \in DOMAIN inProgressUploads /\ inProgressUploads[h] = uploads[r].doc_id

\* C29: an entry of the tracker exists only while an ingestion process for its
\* file hash is in flight, and every entry is eventually removed
C29_TrackerEntryEventuallyRemoved ==
    /\ [](\A h \in DOMAIN inProgressUploads : IngestionsInFlight(h) # {})
    /\ \A h \in FileHashes :
           (h \in DOMAIN inProgressUploads) ~> (h \notin DOMAIN inProgressUploads)

\* an ingestion exited with a failure code and its file hash is free again
C29_Witness ==
    \E r \in 1..MaxUploads :
        /\ uploads[r].python = "exited"
        /\ <<uploads[r].fileHash, r>> \notin storedHashes
        /\ uploads[r].fileHash \notin DOMAIN inProgressUploads

====
